---------------------------- MODULE Spec2Model ----------------------------
(***************************************************************************)
(* LCaDRE (lcadre.py): library complexity and duplication rate estimation. *)
(*                                                                         *)
(* The model follows class Lcadre: the signature builder (get_pos,         *)
(* get_read_string, order_pair), the pairing generator (pair_generator),   *)
(* the frequency counter (process_pair), the estimator                     *)
(* (perform_estimation, calc_s_ind), report, verify_header and run.        *)
(*                                                                         *)
(* Python's None is the empty tuple; an optional value v is <<v>>.  The    *)
(* attributes perform_estimation sets on self are the function est, whose  *)
(* DOMAIN is the set of attributes assigned so far (the instance dict).    *)
(* Float results are exact rationals <<num, den>> in lowest terms; the     *)
(* value of exp() is kept symbolic.                                        *)
(***************************************************************************)
EXTENDS Integers, Sequences, FiniteSets, TLC

VARIABLES
    header,          \* header of the alignment file: "HD" entry or None
    stream,          \* records read from the alignment file so far, in order
    eof,             \* the reader is exhausted
    read_a,          \* pair_generator: index of the pending record, 0 = None
    read_b,          \* pair_generator: index of the second record, 0 = None
    yielded,         \* history: the pairs <<i, j>> yielded so far
    counter,         \* self.counter: signature -> count
    n_extrapolation, \* self.n_extrapolation
    est,             \* attributes set by perform_estimation
    frame,           \* locals of the last process_pair call
    pair_in,         \* the pair handed to process_pair by a direct caller
    pc,              \* position of the caller
    exc,             \* exception that ended the run, or None
    steps,           \* history: methods of run started so far
    reported,        \* values logged by report, or None
    calls            \* history: number of perform_estimation calls

vars == <<header, stream, eof, read_a, read_b, yielded, counter,
          n_extrapolation, est, frame, pair_in, pc, exc, steps, reported,
          calls>>

None == <<>>

Some(v) == <<v>>

-----------------------------------------------------------------------------
(* Bounds of the model.                                                    *)

\* longest record stream
MaxLen == 6

\* number of distinct signatures in a directly constructed table
NKeys == 6

\* largest small count in a directly constructed table
MaxSmall == 3

\* number of perform_estimation calls a direct caller makes
MaxCalls == 2

\* self.r_cutoff
r_cutoff == 10

-----------------------------------------------------------------------------
(* Python string conversion and comparison.                                *)

\* f"{x}" of an optional int: None prints as "None"
PyStr(x) == IF x = None THEN "None" ELSE ToString(x[1])

\* f"{x}" of an optional str: None prints as "None"
PyStrOfStr(x) == IF x = None THEN "None" ELSE x[1]

\* code points of the reference names of the model
CodePoints(s) ==
    CASE s = "chr1"  -> <<99, 104, 114, 49>>
      [] s = "chr10" -> <<99, 104, 114, 49, 48>>
      [] s = "chr2"  -> <<99, 104, 114, 50>>

RECURSIVE SeqGreater(_, _)
\* lexicographic s > t on code point sequences
SeqGreater(s, t) ==
    IF s = <<>> THEN FALSE
    ELSE IF t = <<>> THEN TRUE
    ELSE IF Head(s) # Head(t) THEN Head(s) > Head(t)
    ELSE SeqGreater(Tail(s), Tail(t))

\* Python's a > b on str
StrGreater(a, b) == SeqGreater(CodePoints(a), CodePoints(b))

-----------------------------------------------------------------------------
(* Signature builder.                                                      *)

\* get_pos with the strand arithmetic of the reverse branch negated
get_pos_clip_sign(read) ==
    IF read.reference_start = None \/ read.reference_end = None THEN None
    ELSE IF read.is_reverse
    THEN Some(read.reference_end[1] - read.query_alignment_start)
    ELSE Some(read.reference_start[1] - read.query_alignment_start)

get_pos(read) ==
    IF read.reference_start = None \/ read.reference_end = None THEN None
    ELSE IF read.is_reverse
    THEN Some(read.reference_end[1] + read.query_alignment_start)
    ELSE Some(read.reference_start[1] - read.query_alignment_start)

get_read_string(read, pos) ==
    IF read.reference_start = None \/ read.reference_end = None THEN "-1"
    ELSE LET strand == IF read.is_reverse THEN "-" ELSE "+"
         IN  PyStrOfStr(read.reference_name) \o "." \o PyStr(pos) \o "." \o strand

\* the flip decision of order_pair
flip(read_a_, pos_a, read_b_, pos_b) ==
    IF read_a_.reference_name = None /\ read_b_.reference_name = None THEN FALSE
    ELSE IF read_b_.reference_name = None THEN FALSE
    ELSE IF read_a_.reference_name = None /\ read_b_.reference_name # None THEN TRUE
    ELSE IF StrGreater(read_a_.reference_name[1], read_b_.reference_name[1]) THEN TRUE
    ELSE IF read_a_.reference_name = read_b_.reference_name
    THEN IF pos_a = None /\ pos_b # None THEN TRUE
         ELSE IF pos_a # None /\ pos_b # None /\ pos_a[1] > pos_b[1] THEN TRUE
         ELSE FALSE
    ELSE FALSE

\* order_pair that swaps the records and leaves the positions in place
order_pair_detached(read_a_, pos_a, read_b_, pos_b) ==
    IF flip(read_a_, pos_a, read_b_, pos_b)
    THEN <<read_b_, pos_a, read_a_, pos_b>>
    ELSE <<read_a_, pos_a, read_b_, pos_b>>

order_pair(read_a_, pos_a, read_b_, pos_b) ==
    IF flip(read_a_, pos_a, read_b_, pos_b)
    THEN <<read_b_, pos_b, read_a_, pos_a>>
    ELSE <<read_a_, pos_a, read_b_, pos_b>>

\* the locals of process_pair when it returns
process_pair_locals(first, second) ==
    LET o     == order_pair(first, get_pos(first), second, get_pos(second))
        str_a == get_read_string(o[1], o[2])
        str_b == get_read_string(o[3], o[4])
    IN  [read_a |-> o[1], pos_a |-> o[2], read_b |-> o[3], pos_b |-> o[4],
         str_a |-> str_a, str_b |-> str_b, key |-> str_a \o "." \o str_b]

\* Counter increment that overwrites a present key with 1
IncrementReset(c, key) == (key :> 1) @@ c

\* Counter: c[key] += 1
Increment(c, key) ==
    IF key \in DOMAIN c
    THEN [c EXCEPT ![key] = @ + 1]
    ELSE (key :> 1) @@ c

\* self.counter after process_pair(read_pair)
process_pair(c, first, second) ==
    Increment(c, process_pair_locals(first, second).key)

EmptyCounter == <<>>

RECURSIVE SumCounts(_)
\* sum(self.counter.values())
SumCounts(c) ==
    IF DOMAIN c = {} THEN 0
    ELSE LET k == CHOOSE x \in DOMAIN c : TRUE
         IN  c[k] + SumCounts([y \in DOMAIN c \ {k} |-> c[y]])

-----------------------------------------------------------------------------
(* Exact rational arithmetic for the float-valued attributes.              *)

Abs(n) == IF n < 0 THEN -n ELSE n

RECURSIVE GCD(_, _)
GCD(a, b) == IF b = 0 THEN a ELSE GCD(b, a % b)

\* the rational n/d (d # 0) in lowest terms with a positive denominator
Rat(n, d) ==
    LET g == GCD(Abs(n), Abs(d))
        sgn == IF d < 0 THEN -1 ELSE 1
    IN  <<sgn * (n \div g), sgn * (d \div g)>>

RInt(n) == <<n, 1>>

RAdd(p, q) == Rat(p[1] * q[2] + q[1] * p[2], p[2] * q[2])

RSub(p, q) == Rat(p[1] * q[2] - q[1] * p[2], p[2] * q[2])

RMul(p, q) == Rat(p[1] * q[1], p[2] * q[2])

\* p / q for q # 0
RDiv(p, q) == Rat(p[1] * q[2], p[2] * q[1])

RIsZero(p) == p[1] = 0

\* max(p, 0)
RMax0(p) == IF p[1] < 0 THEN RInt(0) ELSE p

-----------------------------------------------------------------------------
(* Diversity estimator.                                                    *)

\* self.<name> = value
SetAttr(attrs, name, value) == (name :> value) @@ attrs

\* Counter lookup: a missing key reads as 0 and is not inserted
CounterGet(c, k) == IF k \in DOMAIN c THEN c[k] ELSE 0

\* accumulators that continue from the attributes of an earlier call
StaleTally(attrs) ==
    IF "singletons" \in DOMAIN attrs
    THEN [singletons |-> attrs.singletons, doubletons |-> attrs.doubletons,
          others |-> 0, s_rare |-> attrs.s_rare, x_rare |-> attrs.x_rare,
          k_counter |-> attrs.k_counter]
    ELSE [singletons |-> 0, doubletons |-> 0, others |-> 0,
          s_rare |-> 0, x_rare |-> 0, k_counter |-> EmptyCounter]

\* the accumulators as perform_estimation resets them
InitialTally(attrs) ==
    [singletons |-> 0, doubletons |-> 0, others |-> 0,
     s_rare |-> 0, x_rare |-> 0, k_counter |-> EmptyCounter]

\* the loop body with a doubleton test of count >= 2
TallyItemAtLeastTwo(acc, count) ==
    LET rare == count <= r_cutoff
    IN  [singletons |-> acc.singletons + (IF count = 1 THEN 1 ELSE 0),
         doubletons |-> acc.doubletons + (IF count >= 2 THEN 1 ELSE 0),
         others     |-> acc.others + (IF count < 1 THEN 1 ELSE 0),
         s_rare     |-> acc.s_rare + (IF rare THEN 1 ELSE 0),
         x_rare     |-> acc.x_rare + (IF rare THEN count ELSE 0),
         k_counter  |-> IF rare THEN Increment(acc.k_counter, count)
                        ELSE acc.k_counter]

\* one iteration of the loop over self.counter.items()
TallyItem(acc, count) ==
    LET rare == count <= r_cutoff
    IN  [singletons |-> acc.singletons + (IF count = 1 THEN 1 ELSE 0),
         doubletons |-> acc.doubletons + (IF count = 2 THEN 1 ELSE 0),
         others     |-> acc.others + (IF count # 1 /\ count # 2 THEN 1 ELSE 0),
         s_rare     |-> acc.s_rare + (IF rare THEN 1 ELSE 0),
         x_rare     |-> acc.x_rare + (IF rare THEN count ELSE 0),
         k_counter  |-> IF rare THEN Increment(acc.k_counter, count)
                        ELSE acc.k_counter]

RECURSIVE Tally(_, _)
\* the loop over self.counter.items()
Tally(c, acc) ==
    IF DOMAIN c = {} THEN acc
    ELSE LET k == CHOOSE x \in DOMAIN c : TRUE
         IN  Tally([y \in DOMAIN c \ {k} |-> c[y]], TallyItem(acc, c[k]))

RECURSIVE top_sum(_, _)
\* sum(k * (k - 1) * k_counter[k] for k in range(1, upto + 1))
top_sum(kc, upto) ==
    IF upto = 0 THEN 0
    ELSE upto * (upto - 1) * CounterGet(kc, upto) + top_sum(kc, upto - 1)

RECURSIVE bot_sum_dropped_k(_, _)
\* bot_sum without the factor k in the second term
bot_sum_dropped_k(kc, upto) ==
    IF upto = 0 THEN 0
    ELSE upto * CounterGet(kc, upto) * (CounterGet(kc, upto) - 1)
         + bot_sum_dropped_k(kc, upto - 1)

RECURSIVE bot_sum(_, _)
\* sum(k * k_counter[k] * (k * k_counter[k] - 1) for k in range(1, upto + 1))
bot_sum(kc, upto) ==
    IF upto = 0 THEN 0
    ELSE upto * CounterGet(kc, upto) * (upto * CounterGet(kc, upto) - 1)
         + bot_sum(kc, upto - 1)

Raise(type, line) == Some([type |-> type, line |-> line])

\* the result of a call: the attributes set, the value returned and the
\* exception raised (None when the call returns)
Outcome(attrs, value, raised) ==
    [attrs |-> attrs, value |-> value, raised |-> raised]

\* calc_s_ind that returns total_signatures when f0_hat is zero
calc_s_ind_guarded(attrs, f0_hat) ==
    IF attrs.total_read_pairs = 0
    THEN Outcome(attrs, None, Raise("ZeroDivisionError", 68))
    ELSE IF RIsZero(f0_hat)
    THEN Outcome(attrs,
                 [base |-> attrs.total_signatures, f0_hat |-> f0_hat,
                  exponent |-> RInt(0)],
                 None)
    ELSE LET exponent ==
                 RDiv(RMul(Rat(-1 * attrs.m_star, attrs.total_read_pairs),
                           RInt(attrs.singletons)), f0_hat)
         IN  Outcome(attrs,
                     [base |-> attrs.total_signatures, f0_hat |-> f0_hat,
                      exponent |-> exponent],
                     None)

\* calc_s_ind: total_signatures + f0_hat * (1 - exp(exponent)), with exp
\* left symbolic
calc_s_ind(attrs, f0_hat) ==
    IF attrs.total_read_pairs = 0 \/ RIsZero(f0_hat)
    THEN Outcome(attrs, None, Raise("ZeroDivisionError", 68))
    ELSE LET exponent ==
                 RDiv(RMul(Rat(-1 * attrs.m_star, attrs.total_read_pairs),
                           RInt(attrs.singletons)), f0_hat)
         IN  Outcome(attrs,
                     [base |-> attrs.total_signatures, f0_hat |-> f0_hat,
                      exponent |-> exponent],
                     None)

\* 1 - s_ind / n_extrapolation, symbolic in s_ind
DupRateExtrap(s_ind, n) == [one_minus |-> s_ind, over |-> n]

\* lines 229-241: the ACE estimate
AceStage(a0, n) ==
    IF a0.x_rare = 0 THEN Outcome(a0, None, Raise("ZeroDivisionError", 232))
    ELSE
    LET c_ace == RSub(RInt(1), Rat(a0.singletons, a0.x_rare))
        a1    == SetAttr(a0, "c_ace", c_ace)
        top   == top_sum(a1.k_counter, r_cutoff)
        bot   == bot_sum(a1.k_counter, r_cutoff)
    IN  IF RIsZero(c_ace) \/ bot = 0
        THEN Outcome(a1, None, Raise("ZeroDivisionError", 236))
        ELSE
        LET cov == RMax0(RSub(RDiv(RMul(RDiv(RInt(a1.s_rare), c_ace),
                                        RInt(top)), RInt(bot)), RInt(1)))
            a2  == SetAttr(a1, "cov_var_sq", cov)
            f0a == RSub(RAdd(RDiv(RInt(a2.s_rare), c_ace),
                             RMul(RDiv(RInt(a2.singletons), c_ace), cov)),
                        RInt(a2.s_rare))
            a3  == SetAttr(a2, "f0_hat_ace", f0a)
            a4  == SetAttr(a3, "ace", RAdd(f0a, RInt(a3.total_signatures)))
            s   == calc_s_ind(a4, f0a)
        IN  IF s.raised # None THEN Outcome(a4, None, s.raised)
            ELSE LET a5 == SetAttr(a4, "s_ind_ace", s.value)
                 IN  Outcome(SetAttr(a5, "dup_rate_extrap_ace",
                                     DupRateExtrap(s.value, n)), None, None)

\* chao1 with the halving applied to the divisor
chao1_halved_divisor(total_signatures, singletons, doubletons) ==
    RAdd(RInt(total_signatures),
         RDiv(RInt(singletons * singletons), Rat(doubletons, 2)))

\* total_signatures + singletons ** 2 / doubletons / 2
chao1(total_signatures, singletons, doubletons) ==
    RAdd(RInt(total_signatures),
         RDiv(Rat(singletons * singletons, doubletons), RInt(2)))

\* lines 213-227: the Chao1 estimate, then the ACE estimate
ChaoStage(a0, c, n) ==
    LET a1 == SetAttr(a0, "total_read_pairs", SumCounts(c))
        a2 == SetAttr(a1, "total_signatures",
                      a1.singletons + a1.doubletons + a1.others)
        a3 == SetAttr(a2, "chao1",
                      chao1(a2.total_signatures, a2.singletons, a2.doubletons))
        a4 == SetAttr(a3, "m_star", n - a3.total_read_pairs)
        a5 == SetAttr(a4, "f0_hat",
                      RSub(a4.chao1, RInt(a4.total_signatures)))
        s  == calc_s_ind(a5, a5.f0_hat)
    IN  IF s.raised # None THEN Outcome(a5, None, s.raised)
        ELSE LET a6 == SetAttr(a5, "s_ind", s.value)
                 a7 == SetAttr(a6, "dup_rate_obs",
                               RSub(RInt(1), Rat(a6.total_signatures,
                                                 a6.total_read_pairs)))
             IN  IF n = 0
                 THEN Outcome(a7, None, Raise("ZeroDivisionError", 227))
                 ELSE AceStage(SetAttr(a7, "dup_rate_extrap",
                                       DupRateExtrap(s.value, n)), n)

\* perform_estimation on an object whose attributes are attrs
perform_estimation(attrs, c, n) ==
    LET t  == Tally(c, InitialTally(attrs))
        a0 == [x \in DOMAIN attrs \cup DOMAIN t |->
                  IF x \in DOMAIN t THEN t[x] ELSE attrs[x]]
    IN  IF t.doubletons = 0
        THEN Outcome(a0, None, Raise("ZeroDivisionError", 211))
        ELSE ChaoStage(a0, c, n)

-----------------------------------------------------------------------------
(* Inputs.                                                                 *)

Record(q, ref, s, e, rev, clip, sec, sup) ==
    [query_name |-> q, reference_name |-> ref, reference_start |-> s,
     reference_end |-> e, is_reverse |-> rev, query_alignment_start |-> clip,
     is_secondary |-> sec, is_supplementary |-> sup]

RefNames == {None, Some("chr1"), Some("chr10"), Some("chr2")}

Starts == {90, 100}

Ends == {100, 200}

Clips == {0, 10}

\* start and end of a record: either may be absent, a present pair is ordered
Coordinates ==
    {<<None, None>>}
    \cup {<<Some(s), None>> : s \in Starts}
    \cup {<<None, Some(e)>> : e \in Ends}
    \cup {<<Some(s), Some(e)>> : <<s, e>> \in {x \in Starts \X Ends : x[1] < x[2]}}

\* primary records handed to process_pair directly; a record without a
\* reference name has no coordinates
MateRecords ==
    {Record("q1", ref, se[1], se[2], rev, clip, FALSE, FALSE) :
        ref \in RefNames \ {None}, se \in Coordinates, rev \in BOOLEAN,
        clip \in Clips}
    \cup {Record("q1", None, None, None, rev, clip, FALSE, FALSE) :
             rev \in BOOLEAN, clip \in Clips}

\* records of an alignment file
StreamRecords ==
    { Record("q1", None, None, None, FALSE, 0, FALSE, FALSE),
      Record("q1", Some("chr1"), Some(100), Some(200), FALSE, 10, FALSE, FALSE),
      Record("q2", Some("chr1"), Some(100), Some(200), TRUE, 10, FALSE, FALSE),
      Record("q1", Some("chr2"), Some(90), Some(100), FALSE, 0, TRUE, FALSE),
      Record("q1", Some("chr2"), Some(90), Some(100), TRUE, 0, FALSE, TRUE) }

\* header: a dict; the "HD" entry, when present, is a dict that may hold "SO"
Headers ==
    { <<>>,
      [HD |-> [VN |-> "1.6"]],
      [HD |-> [VN |-> "1.6", SO |-> "queryname"]],
      [HD |-> [VN |-> "1.6", SO |-> "coordinate"]],
      [HD |-> [VN |-> "1.6", SO |-> "Coordinate "]] }

\* n_extrapolation of a run
RunTargets == {100}

\* n_extrapolation of a direct estimation
Targets == {0, 5, 100}

\* the signature of key number i of a constructed table
Key(i) == "chr1." \o ToString(i) \o ".+.-1"

CountValues == (1 .. MaxSmall) \cup {r_cutoff, r_cutoff + 1}

\* constructed tables, one per multiset of counts: key i holds t[i], 0 = absent
Tables ==
    { [k \in {Key(i) : i \in {j \in 1 .. NKeys : t[j] > 0}} |->
          t[CHOOSE i \in 1 .. NKeys : Key(i) = k]] :
        t \in {u \in [1 .. NKeys -> {0} \cup CountValues] :
                  \A i \in 1 .. NKeys - 1 : u[i] >= u[i + 1]} }

-----------------------------------------------------------------------------
(* verify_header, pair_generator, read_input, report, run.                 *)

\* str.lower().strip() on the sort orders of Headers
LowerStrip(so) == IF so = "Coordinate " THEN "coordinate" ELSE so

\* the header test that compares the sort order as written
is_coordinate_exact(h) ==
    "HD" \in DOMAIN h /\ "SO" \in DOMAIN h.HD /\ h.HD.SO = "coordinate"

\* the condition of verify_header
is_coordinate(h) ==
    "HD" \in DOMAIN h /\ "SO" \in DOMAIN h.HD
    /\ LowerStrip(h.HD.SO) = "coordinate"

\* the filter that lets supplementary records through
survives_unless_secondary(read) == ~read.is_secondary

\* a record pair_generator does not skip
survives(read) == ~(read.is_secondary \/ read.is_supplementary)

\* the attributes report reads
ReportFields ==
    {"total_read_pairs", "total_signatures", "singletons", "doubletons",
     "dup_rate_obs", "chao1", "s_ind", "dup_rate_extrap", "s_ind_ace", "ace",
     "dup_rate_extrap_ace"}

RunOrder == <<"verify_header", "read_input", "perform_estimation", "report">>

NoRun ==
    /\ header = <<>>
    /\ stream = <<>>
    /\ eof = FALSE
    /\ read_a = 0
    /\ read_b = 0
    /\ yielded = <<>>
    /\ steps = <<>>
    /\ reported = None

InitObject ==
    /\ counter = EmptyCounter
    /\ est = <<>>
    /\ frame = None
    /\ exc = None
    /\ calls = 0

\* Lcadre(fn, n).run() on a file that is read record by record
Init ==
    /\ InitObject
    /\ header \in Headers
    /\ n_extrapolation \in RunTargets
    /\ stream = <<>>
    /\ eof = FALSE
    /\ read_a = 0
    /\ read_b = 0
    /\ yielded = <<>>
    /\ steps = <<>>
    /\ reported = None
    /\ pair_in = None
    /\ pc = "verify_header"

VerifyHeader ==
    /\ pc = "verify_header"
    /\ steps' = Append(steps, "verify_header")
    /\ IF is_coordinate(header)
       THEN exc' = Raise("ValueError", 326) /\ pc' = "raised"
       ELSE exc' = exc /\ pc' = "read_input"
    /\ UNCHANGED <<header, stream, eof, read_a, read_b, yielded, counter,
                   n_extrapolation, est, frame, pair_in, reported, calls>>

\* read_input creates the generator
ReadInput ==
    /\ pc = "read_input"
    /\ steps' = Append(steps, "read_input")
    /\ read_a' = 0
    /\ read_b' = 0
    /\ pc' = "pair_generator"
    /\ UNCHANGED <<header, stream, eof, yielded, counter, n_extrapolation,
                   est, frame, pair_in, exc, reported, calls>>

\* the reader hands the next record to the loop of pair_generator
NextRecord(read) ==
    /\ pc = "pair_generator"
    /\ ~eof
    /\ Len(stream) < MaxLen
    /\ stream' = Append(stream, read)

GeneratorUnchanged ==
    UNCHANGED <<header, eof, counter, n_extrapolation, est, frame, pair_in,
                exc, steps, reported, calls>>

SkipRecord ==
    \E read \in StreamRecords :
        /\ NextRecord(read)
        /\ ~survives(read)
        /\ UNCHANGED <<read_a, read_b, yielded, pc>>
        /\ GeneratorUnchanged

TakePending ==
    \E read \in StreamRecords :
        /\ NextRecord(read)
        /\ survives(read)
        /\ read_a = 0
        /\ read_a' = Len(stream')
        /\ UNCHANGED <<read_b, yielded, pc>>
        /\ GeneratorUnchanged

\* the generator yields (read_a, read_b) and is suspended
YieldPair ==
    \E read \in StreamRecords :
        /\ NextRecord(read)
        /\ survives(read)
        /\ read_a # 0
        /\ read.query_name = stream[read_a].query_name
        /\ read_b' = Len(stream')
        /\ yielded' = Append(yielded, <<read_a, read_b'>>)
        /\ pc' = "process_pair"
        /\ UNCHANGED read_a
        /\ GeneratorUnchanged

ReplacePending ==
    \E read \in StreamRecords :
        /\ NextRecord(read)
        /\ survives(read)
        /\ read_a # 0
        /\ read.query_name # stream[read_a].query_name
        /\ read_a' = Len(stream')
        /\ UNCHANGED <<read_b, yielded, pc>>
        /\ GeneratorUnchanged

\* a resumed generator that keeps the second record as the pending one
pending_after_yield_second(read_a_, read_b_) == read_b_

\* read_a when the generator resumes after a yield: None
pending_after_yield(read_a_, read_b_) == 0

\* read_input processes the yielded pair and resumes the generator
ProcessYielded ==
    /\ pc = "process_pair"
    /\ counter' = process_pair(counter, stream[read_a], stream[read_b])
    /\ frame' = Some(process_pair_locals(stream[read_a], stream[read_b]))
    /\ read_a' = pending_after_yield(read_a, read_b)
    /\ read_b' = 0
    /\ pc' = "pair_generator"
    /\ UNCHANGED <<header, stream, eof, yielded, n_extrapolation, est,
                   pair_in, exc, steps, reported, calls>>

EndOfStream ==
    /\ pc = "pair_generator"
    /\ ~eof
    /\ eof' = TRUE
    /\ pc' = "perform_estimation"
    /\ UNCHANGED <<header, stream, read_a, read_b, yielded, counter,
                   n_extrapolation, est, frame, pair_in, exc, steps, reported,
                   calls>>

PerformEstimation ==
    /\ pc = "perform_estimation"
    /\ steps' = Append(steps, "perform_estimation")
    /\ calls' = calls + 1
    /\ LET r == perform_estimation(est, counter, n_extrapolation)
       IN  /\ est' = r.attrs
           /\ exc' = r.raised
           /\ pc' = IF r.raised = None THEN "report" ELSE "raised"
    /\ UNCHANGED <<header, stream, eof, read_a, read_b, yielded, counter,
                   n_extrapolation, frame, pair_in, reported>>

Report ==
    /\ pc = "report"
    /\ steps' = Append(steps, "report")
    /\ IF ReportFields \subseteq DOMAIN est
       THEN /\ reported' = Some([a \in ReportFields |-> est[a]])
            /\ exc' = exc
            /\ pc' = "done"
       ELSE /\ reported' = reported
            /\ exc' = Raise("AttributeError", 288)
            /\ pc' = "raised"
    /\ UNCHANGED <<header, stream, eof, read_a, read_b, yielded, counter,
                   n_extrapolation, est, frame, pair_in, calls>>

Next ==
    \/ VerifyHeader
    \/ ReadInput
    \/ SkipRecord
    \/ TakePending
    \/ YieldPair
    \/ ReplacePending
    \/ ProcessYielded
    \/ EndOfStream
    \/ PerformEstimation
    \/ Report

Spec == Init /\ [][Next]_vars

-----------------------------------------------------------------------------
(* process_pair called directly on a pair of records, in both orders.      *)

InitSig ==
    /\ InitObject
    /\ NoRun
    /\ n_extrapolation \in RunTargets
    /\ pair_in \in MateRecords \X MateRecords
    /\ pc = "call_given"

ProcessGiven ==
    /\ pc = "call_given"
    /\ counter' = process_pair(counter, pair_in[1], pair_in[2])
    /\ frame' = Some(process_pair_locals(pair_in[1], pair_in[2]))
    /\ pc' = "call_swapped"
    /\ UNCHANGED <<header, stream, eof, read_a, read_b, yielded,
                   n_extrapolation, est, pair_in, exc, steps, reported, calls>>

ProcessSwapped ==
    /\ pc = "call_swapped"
    /\ counter' = process_pair(counter, pair_in[2], pair_in[1])
    /\ frame' = Some(process_pair_locals(pair_in[2], pair_in[1]))
    /\ pc' = "called"
    /\ UNCHANGED <<header, stream, eof, read_a, read_b, yielded,
                   n_extrapolation, est, pair_in, exc, steps, reported, calls>>

NextSig == ProcessGiven \/ ProcessSwapped

SpecSig == InitSig /\ [][NextSig]_vars

-----------------------------------------------------------------------------
(* perform_estimation called directly on a constructed table.              *)

InitEst ==
    /\ NoRun
    /\ counter \in Tables
    /\ n_extrapolation \in Targets
    /\ est = <<>>
    /\ frame = None
    /\ exc = None
    /\ calls = 0
    /\ pair_in = None
    /\ pc = "estimate"

CallPerformEstimation ==
    /\ pc = "estimate"
    /\ calls < MaxCalls
    /\ calls' = calls + 1
    /\ LET r == perform_estimation(est, counter, n_extrapolation)
       IN  /\ est' = r.attrs
           /\ exc' = r.raised
    /\ UNCHANGED <<header, stream, eof, read_a, read_b, yielded, counter,
                   n_extrapolation, frame, pair_in, pc, steps, reported>>

\* the caller goes on to report, as run does, when the estimation returned
CallReport ==
    /\ pc = "estimate"
    /\ calls >= 1
    /\ exc = None
    /\ reported = None
    /\ ReportFields \subseteq DOMAIN est
    /\ reported' = Some([a \in ReportFields |-> est[a]])
    /\ UNCHANGED <<header, stream, eof, read_a, read_b, yielded, counter,
                   n_extrapolation, est, frame, pair_in, pc, exc, steps,
                   calls>>

NextEst == CallPerformEstimation \/ CallReport

SpecEst == InitEst /\ [][NextEst]_vars

-----------------------------------------------------------------------------
(* Properties.                                                             *)

\* a record that is neither secondary nor supplementary
Primary(read) == read.is_secondary = FALSE /\ read.is_supplementary = FALSE

Unmapped(read) == read.reference_start = None \/ read.reference_end = None

\* the two records of the last direct process_pair call, in call order
GivenA == IF pc = "call_swapped" THEN pair_in[1] ELSE pair_in[2]

GivenB == IF pc = "call_swapped" THEN pair_in[2] ELSE pair_in[1]

\* C1: process_pair((A, B)) and process_pair((B, A)) increment the same
\* signature key: after both calls the table holds one key, with count 2.
C1_SwapSymmetric ==
    pc = "called" =>
        \E k \in DOMAIN counter : DOMAIN counter = {k} /\ counter[k] = 2

\* pairs processed so far: every yielded pair but one still in flight
Ingested == Len(yielded) - (IF pc = "process_pair" THEN 1 ELSE 0)

C2_Sum ==
    /\ SumCounts(counter) = Ingested
    /\ \A k \in DOMAIN counter : counter[k] >= 1
    /\ "total_read_pairs" \in DOMAIN est => est.total_read_pairs = Ingested

C2_OneIncrement ==
    IF pc = "process_pair"
    THEN \E k \in DOMAIN counter' :
            /\ counter'[k] = CounterGet(counter, k) + 1
            /\ DOMAIN counter' = DOMAIN counter \cup {k}
            /\ \A j \in DOMAIN counter' \ {k} : counter'[j] = counter[j]
    ELSE counter' = counter

\* C2: the counts sum to the number of pairs ingested, every stored count
\* is at least 1, total_read_pairs equals that sum, and each ingest adds
\* one to exactly one key while no other step changes the table.
C2_CountsSumToIngested == []C2_Sum /\ [][C2_OneIncrement]_vars

C2_Witness ==
    /\ "total_read_pairs" \in DOMAIN est
    /\ est.total_read_pairs = 3
    /\ Cardinality(DOMAIN counter) = 2

\* index of the last primary record read, 0 when there is none
LastPrimary ==
    LET S == {i \in 1 .. Len(stream) : Primary(stream[i])}
    IN  IF S = {} THEN 0 ELSE CHOOSE i \in S : \A j \in S : j <= i

\* C3: every yielded pair is (pending, next): two primary records of one
\* query name, in stream order, with no primary record between them; no
\* record is in two pairs; the one pending record is the last primary
\* record read, unless that record has just completed a pair.
C3_PairsAdjacentPrimary ==
    /\ \A p \in 1 .. Len(yielded) :
          LET i == yielded[p][1]
              j == yielded[p][2]
          IN  /\ 1 <= i /\ i < j /\ j <= Len(stream)
              /\ Primary(stream[i]) /\ Primary(stream[j])
              /\ stream[i].query_name = stream[j].query_name
              /\ \A m \in i + 1 .. j - 1 : ~Primary(stream[m])
    /\ \A p, q \in 1 .. Len(yielded) :
          p # q => {yielded[p][1], yielded[p][2]}
                   \cap {yielded[q][1], yielded[q][2]} = {}
    /\ pc = "process_pair" =>
          /\ <<read_a, read_b>> = yielded[Len(yielded)]
          /\ read_b = LastPrimary
    /\ pc # "process_pair" =>
          /\ read_b = 0
          /\ read_a \in {0, LastPrimary}
          /\ read_a = 0 /\ LastPrimary # 0 =>
                /\ yielded # <<>>
                /\ yielded[Len(yielded)][2] = LastPrimary

C3_Witness ==
    /\ Len(yielded) = 2
    /\ yielded[1] = <<2, 4>>
    /\ Primary(stream[1])
    /\ yielded[2] = <<5, 6>>

\* the attributes perform_estimation sets after the doubleton check
ResultFields ==
    {"total_read_pairs", "total_signatures", "chao1", "m_star", "f0_hat",
     "s_ind", "dup_rate_obs", "dup_rate_extrap", "c_ace", "cov_var_sq",
     "f0_hat_ace", "ace", "s_ind_ace", "dup_rate_extrap_ace"}

NoDoubleton == \A k \in DOMAIN counter : counter[k] # 2

\* C4: on a table with no count of exactly 2, the empty table included,
\* perform_estimation raises the ZeroDivisionError of the doubleton check
\* and sets none of the result attributes.
C4_NoDoubletonFails ==
    calls >= 1 /\ NoDoubleton =>
        /\ exc = Raise("ZeroDivisionError", 211)
        /\ DOMAIN est \cap ResultFields = {}
        /\ reported = None

C4_Witness ==
    /\ calls >= 1
    /\ counter = EmptyCounter
    /\ exc = Raise("ZeroDivisionError", 211)

\* headers that declare coordinate sort order
CoordinateHeaders ==
    {h \in Headers : "HD" \in DOMAIN h /\ "SO" \in DOMAIN h.HD
                     /\ h.HD.SO \in {"coordinate", "Coordinate "}}

\* C5: run goes verify_header, read_input, perform_estimation, report,
\* each only after the one before it returned: a coordinate header ends
\* the run before a record is read or counted, estimation starts only at
\* end of stream, and report runs only after an estimation without error.
C5_RunOrder ==
    /\ Len(steps) <= Len(RunOrder)
    /\ \A i \in 1 .. Len(steps) : steps[i] = RunOrder[i]
    /\ header \in CoordinateHeaders =>
          /\ stream = <<>> /\ counter = EmptyCounter /\ yielded = <<>>
          /\ Len(steps) <= 1
          /\ steps # <<>> => exc = Raise("ValueError", 326)
    /\ Len(steps) >= 2 => header \notin CoordinateHeaders
    /\ Len(steps) < 2 => stream = <<>> /\ counter = EmptyCounter
    /\ Len(steps) >= 3 => eof /\ pc # "process_pair" /\ calls = 1
    /\ Len(steps) < 3 => calls = 0 /\ est = <<>>
    /\ Len(steps) = 4 => ResultFields \subseteq DOMAIN est
    /\ reported # None =>
          /\ steps = RunOrder
          /\ exc = None
          /\ reported = Some([a \in ReportFields |-> est[a]])
    /\ exc # None => reported = None /\ pc = "raised"

C5_Witness ==
    /\ reported # None
    /\ pc = "done"
    /\ Len(yielded) = 3

C7_Token(read) ==
    IF Unmapped(read) THEN "-1"
    ELSE IF read.is_reverse
    THEN PyStrOfStr(read.reference_name) \o "."
         \o ToString(read.reference_end[1] + read.query_alignment_start)
         \o ".-"
    ELSE PyStrOfStr(read.reference_name) \o "."
         \o ToString(read.reference_start[1] - read.query_alignment_start)
         \o ".+"

C7_Mate(read, pos, str) ==
    /\ str = C7_Token(read)
    /\ (str = "-1") <=> Unmapped(read)
    /\ (pos = None) <=> Unmapped(read)
    /\ ~Unmapped(read) /\ ~read.is_reverse =>
          pos = Some(read.reference_start[1] - read.query_alignment_start)
    /\ ~Unmapped(read) /\ read.is_reverse =>
          pos = Some(read.reference_end[1] + read.query_alignment_start)

\* C7: a mate's token is "-1" exactly when its reference start or end is
\* absent, and then its position is absent; otherwise it is name.p.+
\* with p = start - clip on the forward strand and name.p.- with
\* p = end + clip on the reverse strand.
C7_ReadToken ==
    frame # None =>
        /\ C7_Mate(frame[1].read_a, frame[1].pos_a, frame[1].str_a)
        /\ C7_Mate(frame[1].read_b, frame[1].pos_b, frame[1].str_b)
        /\ frame[1].key = frame[1].str_a \o "." \o frame[1].str_b

C7_Witness ==
    /\ frame # None
    /\ frame[1].read_a.reference_start = Some(100)
    /\ frame[1].read_a.query_alignment_start = 10
    /\ frame[1].str_a = "chr1.90.+"
    /\ frame[1].read_b.reference_end = Some(200)
    /\ frame[1].read_b.query_alignment_start = 10
    /\ frame[1].str_b = "chr1.210.-"

KeysWithCount(n) == {k \in DOMAIN counter : counter[k] = n}

C9_EstimationIdempotent ==
    [][ /\ counter' = counter
        /\ n_extrapolation' = n_extrapolation
        /\ calls >= 1 /\ calls' = calls + 1 => est' = est /\ exc' = exc
      ]_vars

C9_Witness ==
    /\ calls = 2
    /\ exc = None
    /\ ResultFields \subseteq DOMAIN est
    /\ est.singletons = 2

RECURSIVE C10_BotSum(_, _)
C10_BotSum(kc, k) ==
    IF k = 0 THEN 0
    ELSE LET f == IF k \in DOMAIN kc THEN kc[k] ELSE 0
         IN  k * f * (k * f - 1) + C10_BotSum(kc, k - 1)

\* C10: past the doubleton check, with r_cutoff = 10 and all counts >= 1,
\* x_rare >= 2, singletons < x_rare (so c_ace > 0) and bot_sum >= 2, so
\* the divisions by x_rare, c_ace and bot_sum never fail.
C10_AceDenominatorsNonZero ==
    calls >= 1 /\ exc # Raise("ZeroDivisionError", 211) =>
        /\ r_cutoff >= 2
        /\ \A k \in DOMAIN counter : counter[k] >= 1
        /\ est.x_rare >= 2
        /\ est.singletons < est.x_rare
        /\ C10_BotSum(est.k_counter, r_cutoff) >= 2
        /\ exc \notin {Raise("ZeroDivisionError", 232),
                       Raise("ZeroDivisionError", 236)}
        /\ "c_ace" \in DOMAIN est => est.c_ace[1] > 0
        /\ exc = None => {"c_ace", "cov_var_sq"} \subseteq DOMAIN est

C10_Witness ==
    /\ calls >= 1
    /\ exc = None
    /\ "cov_var_sq" \in DOMAIN est
    /\ est.cov_var_sq[1] > 0
    /\ \E k \in DOMAIN counter : counter[k] > r_cutoff

\* C11: with a doubleton and no singleton, f0_hat is 0 and
\* perform_estimation raises ZeroDivisionError in calc_s_ind, before s_ind
\* or any later attribute is set; an estimation that returns, and a
\* report, happen only on tables with a singleton and a doubleton.
C11_NoSingletonFails ==
    calls >= 1 =>
        /\ KeysWithCount(2) # {} /\ KeysWithCount(1) = {} =>
              /\ est.f0_hat = RInt(0)
              /\ exc = Raise("ZeroDivisionError", 68)
              /\ DOMAIN est \cap
                   {"s_ind", "dup_rate_obs", "dup_rate_extrap", "c_ace",
                    "cov_var_sq", "f0_hat_ace", "ace", "s_ind_ace",
                    "dup_rate_extrap_ace"} = {}
              /\ reported = None
        /\ exc = None \/ reported # None =>
              /\ Cardinality(KeysWithCount(1)) >= 1
              /\ Cardinality(KeysWithCount(2)) >= 1

C11_Witness ==
    /\ calls >= 1
    /\ Cardinality(KeysWithCount(2)) = 2
    /\ KeysWithCount(1) = {}
    /\ Cardinality(DOMAIN counter) = 3
    /\ est.f0_hat = RInt(0)
    /\ exc = Raise("ZeroDivisionError", 68)

\* indexes of the primary records read
PrimaryIdx == {i \in 1 .. Len(stream) : Primary(stream[i])}

\* indexes of the primary records named nm
NamedIdx(nm) == {i \in PrimaryIdx : stream[i].query_name = nm}

PrimaryNames == {stream[i].query_name : i \in PrimaryIdx}

\* among the primary records, the records of one name are contiguous
NamesContiguous ==
    \A i, j, k \in PrimaryIdx :
        i < j /\ j < k /\ stream[i].query_name = stream[k].query_name
            => stream[j].query_name = stream[i].query_name

\* primary records in no yielded pair
Unpaired ==
    PrimaryIdx \ UNION {{yielded[p][1], yielded[p][2]} : p \in 1 .. Len(yielded)}

\* C12: at end of a stream whose primary records of one name are
\* contiguous, each name with n primary records has floor(n/2) pairs, the
\* pairs are in stream order, the generator ended without an exception,
\* the only dropped primary records are the last record of each name of
\* odd n, and when every name has two primary records none is dropped and
\* the pairs counted equal the number of names.
C12_ContiguousNamesPairUp ==
    eof /\ NamesContiguous =>
        /\ \A nm \in PrimaryNames :
              Cardinality({p \in 1 .. Len(yielded) :
                              /\ stream[yielded[p][1]].query_name = nm
                              /\ stream[yielded[p][2]].query_name = nm})
                = Cardinality(NamedIdx(nm)) \div 2
        /\ \A p \in 1 .. Len(yielded) :
              stream[yielded[p][1]].query_name = stream[yielded[p][2]].query_name
        /\ \A p \in 1 .. Len(yielded) - 1 : yielded[p][2] < yielded[p + 1][1]
        /\ pc \in {"perform_estimation", "report", "done", "raised"}
        /\ exc # None => Len(steps) >= 3 /\ exc[1].type = "ZeroDivisionError"
        /\ \A i \in Unpaired :
              /\ Cardinality(NamedIdx(stream[i].query_name)) % 2 = 1
              /\ \A j \in NamedIdx(stream[i].query_name) : j <= i
        /\ \A nm \in PrimaryNames :
              Cardinality(NamedIdx(nm)) % 2 = 1
                  => \E i \in Unpaired : stream[i].query_name = nm
        /\ (\A nm \in PrimaryNames : Cardinality(NamedIdx(nm)) = 2) =>
              /\ Unpaired = {}
              /\ Len(yielded) = Cardinality(PrimaryNames)
              /\ SumCounts(counter) = Cardinality(PrimaryNames)

C12_Witness ==
    /\ eof
    /\ NamesContiguous
    /\ Len(stream) = 6
    /\ Cardinality(PrimaryNames) = 2
    /\ Cardinality(PrimaryIdx) = 5
    /\ Len(yielded) = 2
    /\ Cardinality(Unpaired) = 1
    /\ SumCounts(counter) = 2

=============================================================================
